---- MODULE Spec2Model ----
(***************************************************************************)
(* A model of madis' igroup virtual-table operator                         *)
(* (src/src/functions/vtable/igroup.py) and of the jpack row functions     *)
(* (src/src/functions/row/jpacks.py).                                      *)
(*                                                                         *)
(* Two specifications share the module:                                    *)
(*   SpecStream - one IGroup stream driven by the host engine;             *)
(*   SpecPack   - one call of one of the jpack functions on bounded        *)
(*                arguments.                                               *)
(***************************************************************************)
EXTENDS Integers, Sequences, FiniteSets, TLC

VARIABLES
    \* ---- igroup stream ----
    parsedArgs,   \* the arguments VTiter is called with
    tbl,          \* what the host data handle answers for the query
    gen,          \* where the VTiter generator is suspended
    cur,          \* the sub-cursor c of VTiter
    delivered,    \* the items next() has returned so far, in order
    last,         \* outcome of the latest next()/throw() call
    err,          \* the exception the generator raised, if any
    afterEnd,     \* next() calls made after the generator had ended
    \* ---- one call of a row function ----
    args,         \* the arguments of the call
    orig,         \* the arguments of the first call
    fed,          \* whether args is the pack an earlier jpack returned
    pc,           \* "idle" before the call, "done" after it
    fn,           \* the function called
    ret           \* what the call left behind (see Ret)

streamVars == <<parsedArgs, tbl, gen, cur, delivered, last, err, afterEnd>>

packVars == <<args, orig, fed, pc, fn, ret>>

vars == <<parsedArgs, tbl, gen, cur, delivered, last, err, afterEnd,
          args, orig, fed, pc, fn, ret>>

(***************************************************************************)
(* Bounds                                                                  *)
(***************************************************************************)
MaxRows == 2
MaxAfterEnd == 2
MaxArgs == 2

(***************************************************************************)
(* Generic helpers                                                         *)
(***************************************************************************)
Last(s) == s[Len(s)]

SeqsUpTo(S, n) == UNION {[1..k -> S] : k \in 0..n}

(***************************************************************************)
(* The host side of igroup: argument parsing and the data handle           *)
(***************************************************************************)
\* A parsed argument is positional (k = "") or named (k = its key).
Arg(k, v) == [k |-> k, v |-> v]

RECURSIVE PositionalOf(_)
PositionalOf(as) ==
    IF as = <<>> THEN <<>>
    ELSE IF as[1].k = "" THEN <<as[1].v>> \o PositionalOf(Tail(as))
         ELSE PositionalOf(Tail(as))

\* The value of the last named argument with key k.
RECURSIVE NamedValue(_, _)
NamedValue(as, k) ==
    IF Last(as).k = k THEN Last(as).v
    ELSE NamedValue(SubSeq(as, 1, Len(as) - 1), k)

\* self.full_parse(parsedArgs): the positional values and the named ones.
full_parse(as) ==
    LET keys == {as[i].k : i \in 1..Len(as)} \ {""}
    IN  [largs    |-> PositionalOf(as),
         dictargs |-> [k \in keys |-> NamedValue(as, k)]]

\* The queries the host is asked to run; BadQuery is one execute() rejects.
GoodQuery == "select * from table1"
BadQuery  == "select * from"

NoCursor == [opened |-> FALSE, closed |-> FALSE, pos |-> 0]

\* envars['db'].cursor().execute(query)
Execute(query) ==
    IF query = BadQuery
    THEN [ok |-> FALSE, c |-> NoCursor]
    ELSE [ok |-> TRUE,  c |-> [opened |-> TRUE, closed |-> FALSE, pos |-> 0]]

\* One step of "for r in c" on the host cursor: a row, the end, or an error.
CursorNext(c, t) ==
    IF t.failAt = c.pos + 1 THEN [kind |-> "error", row |-> <<>>, c |-> c]
    ELSE IF c.pos < Len(t.rows)
         THEN [kind |-> "row", row |-> t.rows[c.pos + 1],
               c |-> [c EXCEPT !.pos = c.pos + 1]]
         ELSE [kind |-> "stop", row |-> <<>>, c |-> c]

\* c.close()
CursorClose(c) == [c EXCEPT !.closed = TRUE]

(***************************************************************************)
(* igroup.py                                                               *)
(***************************************************************************)
\* __name__ of the module, as the package path the functions are loaded by.
ModuleName == <<"functions", "vtable", "igroup">>

\* __name__.rsplit('.')[-1]
OperatorName == Last(ModuleName)

NoError == [type |-> "", operator |-> "", msg |-> ""]

OperatorError(name, msg) ==
    [type |-> "OperatorError", operator |-> name, msg |-> msg]

HostError == [type |-> "HostError", operator |-> "", msg |-> ""]

SchemaItem(cols) == [kind |-> "schema", val |-> cols]
DataItem(r)      == [kind |-> "data",   val |-> r]

\* IGroup.BestIndex: (None, 0, None, True, 1000)
BestIndex(constraints, orderbys) ==
    [usable |-> <<>>, cost |-> 0, index |-> "", presorted |-> TRUE,
     rowcount |-> 1000]

\* VTiterResume with a second pull inside the loop: every other row is lost.
VTiterResume_Skip(c, t) ==
    LET n1 == CursorNext(c, t)
        n  == IF n1.kind = "row" THEN CursorNext(n1.c, t) ELSE n1
    IN
    [gen  |-> IF n.kind = "row" THEN "inLoop" ELSE "finished",
     cur  |-> n.c,
     out  |-> IF n.kind = "row" THEN <<DataItem(n.row)>> ELSE <<>>,
     last |-> IF n.kind = "row" THEN "row"
              ELSE IF n.kind = "stop" THEN "EndOfStream" ELSE "error",
     err  |-> IF n.kind = "error" THEN HostError ELSE NoError]

\* A later next(): the generator resumes after a yield, in "for r in c".
VTiterResume(c, t) ==
    LET n == CursorNext(c, t) IN
    CASE n.kind = "row" ->
            [gen |-> "inLoop", cur |-> n.c, out |-> <<DataItem(n.row)>>,
             last |-> "row", err |-> NoError]
      [] n.kind = "stop" ->
            [gen |-> "finished", cur |-> n.c, out |-> <<>>,
             last |-> "EndOfStream", err |-> NoError]
      [] n.kind = "error" ->
            [gen |-> "finished", cur |-> n.c, out |-> <<>>,
             last |-> "error", err |-> HostError]

\* VTiterStart without the yield of the schema: the first item is a data row.
VTiterStart_NoSchema(as, t) ==
    LET p == full_parse(as) IN
    IF "query" \notin DOMAIN p.dictargs
    THEN [gen |-> "finished", cur |-> NoCursor, out |-> <<>>,
          last |-> "error",
          err |-> OperatorError(OperatorName, "No query argument ")]
    ELSE IF ~Execute(p.dictargs["query"]).ok
         THEN [gen |-> "finished", cur |-> NoCursor, out |-> <<>>,
               last |-> "error", err |-> HostError]
         ELSE VTiterResume(Execute(p.dictargs["query"]).c, t)

\* VTiterStart with the cursor made before the arguments are looked at.
VTiterStart_CursorFirst(as, t) ==
    LET p == full_parse(as)
        c == Execute(GoodQuery).c
    IN
    IF "query" \notin DOMAIN p.dictargs
    THEN [gen |-> "finished", cur |-> c, out |-> <<>>,
          last |-> "error",
          err |-> OperatorError(OperatorName, "No query argument ")]
    ELSE [gen |-> "atSchema", cur |-> c, out |-> <<SchemaItem(t.cols)>>,
          last |-> "row", err |-> NoError]

\* The first next(): VTiter runs from its top to the first yield.
VTiterStart(as, t) ==
    LET p == full_parse(as) IN
    IF "query" \notin DOMAIN p.dictargs
    THEN [gen |-> "finished", cur |-> NoCursor, out |-> <<>>,
          last |-> "error",
          err |-> OperatorError(OperatorName, "No query argument ")]
    ELSE LET e == Execute(p.dictargs["query"]) IN
         IF ~e.ok
         THEN [gen |-> "finished", cur |-> e.c, out |-> <<>>,
               last |-> "error", err |-> HostError]
         ELSE [gen |-> "atSchema", cur |-> e.c,
               out |-> <<SchemaItem(t.cols)>>,
               last |-> "row", err |-> NoError]

\* StopIteration thrown into the generator where it is suspended: only the
\* yield of the schema row is inside the try that closes the cursor.
VTiterThrow(g, c) ==
    IF g = "atSchema"
    THEN [gen |-> "finished", cur |-> CursorClose(c), last |-> "EndOfStream"]
    ELSE [gen |-> "finished", cur |-> c, last |-> "EndOfStream"]

\* The state of the stream in the terms of the operator contract.
StreamState ==
    CASE gen = "unopened" -> "Unopened"
      [] gen \in {"created", "atSchema", "inLoop"} -> "Streaming"
      [] gen = "finished" /\ err # NoError -> "Failed"
      [] OTHER -> "Exhausted"

(***************************************************************************)
(* Inputs of the stream                                                    *)
(***************************************************************************)
Cols == <<"a", "b">>
RowValues == {<<"James", "10">>, <<"Mark", "7">>}

ArgLists ==
    { <<>>,
      <<Arg("query", GoodQuery)>>,
      <<Arg("query", BadQuery)>>,
      <<Arg("", GoodQuery)>>,
      <<Arg("", "x"), Arg("query", GoodQuery)>>,
      <<Arg("other", "x")>>,
      <<Arg("query", BadQuery), Arg("query", GoodQuery)>> }

Tables ==
    { [cols |-> Cols, rows |-> rs, failAt |-> f] :
        rs \in SeqsUpTo(RowValues, MaxRows),
        f \in 0..(MaxRows + 1) }

(***************************************************************************)
(* Values and their text                                                   *)
(***************************************************************************)
\* A text is a sequence of one-character strings.  A Value is a record of
\* one shape: t is its type, n its number (an Integer as itself, a Real in
\* tenths), s its text, e its elements.
Null     == [t |-> "null", n |-> 0, s |-> <<>>, e |-> <<>>]
Integer(n) == [t |-> "int",  n |-> n, s |-> <<>>, e |-> <<>>]
Float(n) == [t |-> "real", n |-> n, s |-> <<>>, e |-> <<>>]
Text(s)  == [t |-> "text", n |-> 0, s |-> s,    e |-> <<>>]
Sequence(e) == [t |-> "seq",  n |-> 0, s |-> <<>>, e |-> e]

IsNumber(v) == v.t \in {"int", "real"}
IsScalar(v) == v.t # "seq"

\* The number a numeric Value stands for, in tenths.
Tenths(v) == IF v.t = "int" THEN 10 * v.n ELSE v.n

Digits == <<"0", "1", "2", "3", "4", "5", "6", "7", "8", "9">>
IsDigit(c) == \E i \in 1..Len(Digits) : Digits[i] = c
DigitValue(c) == (CHOOSE i \in 1..Len(Digits) : Digits[i] = c) - 1

\* str(n) for a non-negative integer.
RECURSIVE IntText(_)
IntText(n) ==
    IF n < 10 THEN <<Digits[n + 1]>>
    ELSE IntText(n \div 10) \o <<Digits[(n % 10) + 1]>>

\* repr of a float with one decimal place.
RealText(n) == IntText(n \div 10) \o <<".">> \o <<Digits[(n % 10) + 1]>>

Quote == "\""
Backslash == "\\"

\* The characters of a JSON string literal for the text s.
RECURSIVE Escaped(_)
Escaped(s) ==
    IF s = <<>> THEN <<>>
    ELSE (IF s[1] \in {Quote, Backslash} THEN <<Backslash, s[1]>> ELSE <<s[1]>>)
         \o Escaped(Tail(s))

(***************************************************************************)
(* JSON text: json.dumps with compact separators, and json.loads           *)
(***************************************************************************)
NullText == <<"n", "u", "l", "l">>

RECURSIVE JsonText(_)
RECURSIVE JsonElems(_)
JsonText(v) ==
    CASE v.t = "null" -> NullText
      [] v.t = "int"  -> IntText(v.n)
      [] v.t = "real" -> RealText(v.n)
      [] v.t = "text" -> <<Quote>> \o Escaped(v.s) \o <<Quote>>
      [] v.t = "seq"  -> <<"[">> \o JsonElems(v.e) \o <<"]">>

JsonElems(e) ==
    IF e = <<>> THEN <<>>
    ELSE IF Len(e) = 1 THEN JsonText(e[1])
    ELSE JsonText(e[1]) \o <<",">> \o JsonElems(Tail(e))

\* A parse step answers [ok, v, j]: the value read and the index after it.
ParseFail == [ok |-> FALSE, v |-> Null, j |-> 0]
Parsed(v, j) == [ok |-> TRUE, v |-> v, j |-> j]

\* The index of the first character at or after i that is not a digit.
RECURSIVE DigitsEnd(_, _)
DigitsEnd(s, i) ==
    IF i <= Len(s) /\ IsDigit(s[i]) THEN DigitsEnd(s, i + 1) ELSE i

\* The number written by the digits s[i..j-1].
RECURSIVE NumberOf(_, _, _)
NumberOf(s, i, j) ==
    IF j <= i THEN 0
    ELSE 10 * NumberOf(s, i, j - 1) + DigitValue(s[j - 1])

\* A JSON number: digits without a leading zero, and at most a fraction of
\* one digit (the Reals of this model have one decimal place).
ParseNumber(s, i) ==
    LET j == DigitsEnd(s, i) IN
    IF s[i] = "0" /\ j > i + 1 THEN ParseFail
    ELSE IF j <= Len(s) /\ s[j] = "."
         THEN IF DigitsEnd(s, j + 1) = j + 2
              THEN Parsed(Float(10 * NumberOf(s, i, j) + DigitValue(s[j + 1])),
                          j + 2)
              ELSE ParseFail
         ELSE Parsed(Integer(NumberOf(s, i, j)), j)

\* The rest of a string literal, from inside its opening quote.
RECURSIVE ParseString(_, _, _)
ParseString(s, i, acc) ==
    IF i > Len(s) THEN ParseFail
    ELSE IF s[i] = Quote THEN Parsed(Text(acc), i + 1)
    ELSE IF s[i] = Backslash
         THEN IF i + 1 <= Len(s) /\ s[i + 1] \in {Quote, Backslash}
              THEN ParseString(s, i + 2, Append(acc, s[i + 1]))
              ELSE ParseFail
         ELSE ParseString(s, i + 1, Append(acc, s[i]))

RECURSIVE ParseValue(_, _)
RECURSIVE ParseElems(_, _, _)
ParseValue(s, i) ==
    IF i > Len(s) THEN ParseFail
    ELSE CASE s[i] = "[" ->
                IF i + 1 <= Len(s) /\ s[i + 1] = "]"
                THEN Parsed(Sequence(<<>>), i + 2)
                ELSE ParseElems(s, i + 1, <<>>)
           [] s[i] = Quote -> ParseString(s, i + 1, <<>>)
           [] IsDigit(s[i]) -> ParseNumber(s, i)
           [] s[i] = "n" ->
                IF i + 3 <= Len(s) /\ SubSeq(s, i, i + 3) = NullText
                THEN Parsed(Null, i + 4)
                ELSE ParseFail
           [] OTHER -> ParseFail

\* The elements of an array from index i, acc being those already read.
ParseElems(s, i, acc) ==
    LET r == ParseValue(s, i) IN
    IF ~r.ok \/ r.j > Len(s) THEN ParseFail
    ELSE IF s[r.j] = "," THEN ParseElems(s, r.j + 1, Append(acc, r.v))
    ELSE IF s[r.j] = "]" THEN Parsed(Sequence(Append(acc, r.v)), r.j + 1)
    ELSE ParseFail

\* json.loads(s) for a text that holds an array or a scalar.
json_loads(s) ==
    LET r == ParseValue(s, 1) IN
    IF r.ok /\ r.j = Len(s) + 1 THEN r ELSE ParseFail

\* The members of an object from index i: "key":value, ... }
RECURSIVE ParseMembers(_, _, _)
ParseMembers(s, i, acc) ==
    IF i > Len(s) \/ s[i] # Quote THEN [ok |-> FALSE, items |-> <<>>, j |-> 0]
    ELSE LET k == ParseString(s, i + 1, <<>>) IN
         IF ~k.ok \/ k.j > Len(s) \/ s[k.j] # ":"
         THEN [ok |-> FALSE, items |-> <<>>, j |-> 0]
         ELSE LET r == ParseValue(s, k.j + 1)
                  it == Append(acc, [k |-> k.v.s, v |-> r.v])
              IN  IF ~r.ok \/ r.j > Len(s)
                  THEN [ok |-> FALSE, items |-> <<>>, j |-> 0]
                  ELSE IF s[r.j] = "," THEN ParseMembers(s, r.j + 1, it)
                  ELSE IF s[r.j] = "}"
                       THEN [ok |-> TRUE, items |-> it, j |-> r.j + 1]
                  ELSE [ok |-> FALSE, items |-> <<>>, j |-> 0]

\* A dict keeps one entry per key: the last one written.
RECURSIVE DictOf(_)
DictOf(items) ==
    IF items = <<>> THEN <<>>
    ELSE LET rest == SubSeq(items, 1, Len(items) - 1)
             x == Last(items)
             kept == SelectSeq(DictOf(rest), LAMBDA y : y.k # x.k)
         IN  Append(kept, x)

\* json.loads(s) for a text that holds an object: the dict's entries.
json_loads_dict(s) ==
    IF Len(s) >= 2 /\ s[1] = "{" /\ s[2] = "}"
    THEN [ok |-> Len(s) = 2, items |-> <<>>]
    ELSE IF Len(s) >= 1 /\ s[1] = "{"
         THEN LET r == ParseMembers(s, 2, <<>>) IN
              [ok |-> r.ok /\ r.j = Len(s) + 1, items |-> DictOf(r.items)]
         ELSE [ok |-> FALSE, items |-> <<>>]

(***************************************************************************)
(* lib.jlist: the pack codec                                               *)
(***************************************************************************)
\* toj(l): "single values are represented as themselves where possible";
\* anything else is the text of a JSON array.
toj(l) ==
    IF Len(l) = 1 /\ IsScalar(l[1]) THEN l[1]
    ELSE Text(JsonText(Sequence(l)))

\* toj(x) on one element x: a list x is the sequence to encode.
toj1(x) == IF x.t = "seq" THEN toj(x.e) ELSE toj(<<x>>)

\* Whether the argument a is a text that reads as a JSON array.
IsArrayText(a) ==
    a.t = "text" /\ json_loads(a.s).ok /\ json_loads(a.s).v.t = "seq"

\* fromj(*args): an argument that reads as a JSON array is flattened by one
\* level; any other argument is one element as it is, a text staying a text
\* (jflatten('1', '[2]') is ["1",2]) and a number a number.
RECURSIVE fromj(_)
fromj(as) ==
    IF as = <<>> THEN <<>>
    ELSE (IF IsArrayText(as[1]) THEN json_loads(as[1].s).v.e ELSE <<as[1]>>)
         \o fromj(Tail(as))

\* elemfromj(*args): an array argument is kept as one Sequence element.
RECURSIVE elemfromj(_)
elemfromj(as) ==
    IF as = <<>> THEN <<>>
    ELSE (IF IsArrayText(as[1]) THEN <<json_loads(as[1].s).v>> ELSE <<as[1]>>)
         \o elemfromj(Tail(as))

(***************************************************************************)
(* Python 2 comparison, sorted() and set()                                 *)
(***************************************************************************)
\* The characters of the model in the order of their code points.
Alphabet ==
    <<Quote, ",", ".", "0", "1", "2", "3", "4", "5", "6", "7", "8", "9", ":",
      "C", "[", Backslash, "]", "a", "b", "l", "n", "u", "x", "{", "}">>

CharCode(c) == CHOOSE i \in 1..Len(Alphabet) : Alphabet[i] = c

Sign(a, b) == IF a < b THEN -1 ELSE IF a > b THEN 1 ELSE 0

\* cmp of two unicode strings.
RECURSIVE text_cmp(_, _)
text_cmp(a, b) ==
    IF a = <<>> \/ b = <<>> THEN Sign(Len(a), Len(b))
    ELSE IF a[1] # b[1] THEN Sign(CharCode(a[1]), CharCode(b[1]))
    ELSE text_cmp(Tail(a), Tail(b))

\* Objects of different types: None first, then numbers, then the others by
\* the name of their type ('list' before 'unicode').
py_type_rank(v) ==
    CASE v.t = "null" -> 0
      [] IsNumber(v)  -> 1
      [] v.t = "seq"  -> 2
      [] v.t = "text" -> 3

\* cmp(a, b)
RECURSIVE py_cmp(_, _)
RECURSIVE py_list_cmp(_, _)
py_cmp(a, b) ==
    IF py_type_rank(a) # py_type_rank(b)
    THEN Sign(py_type_rank(a), py_type_rank(b))
    ELSE CASE a.t = "null" -> 0
           [] IsNumber(a)  -> Sign(Tenths(a), Tenths(b))
           [] a.t = "text" -> text_cmp(a.s, b.s)
           [] a.t = "seq"  -> py_list_cmp(a.e, b.e)

py_list_cmp(a, b) ==
    IF a = <<>> \/ b = <<>> THEN Sign(Len(a), Len(b))
    ELSE IF py_cmp(a[1], b[1]) # 0 THEN py_cmp(a[1], b[1])
    ELSE py_list_cmp(Tail(a), Tail(b))

\* x put into the sorted list l after every element that is not greater.
RECURSIVE insort(_, _)
insort(l, x) ==
    IF l = <<>> THEN <<x>>
    ELSE IF py_cmp(Last(l), x) <= 0 THEN Append(l, x)
    ELSE Append(insort(SubSeq(l, 1, Len(l) - 1), x), Last(l))

\* sorted(l): a stable sort.
RECURSIVE sorted(_)
sorted(l) ==
    IF l = <<>> THEN <<>>
    ELSE insort(sorted(SubSeq(l, 1, Len(l) - 1)), Last(l))

\* set(l): a list cannot be hashed; of equal elements the first one stays.
Hashable(l) == \A i \in 1..Len(l) : l[i].t # "seq"

RECURSIVE py_set(_)
py_set(l) ==
    IF l = <<>> THEN <<>>
    ELSE LET rest == py_set(SubSeq(l, 1, Len(l) - 1)) IN
         IF \E i \in 1..Len(rest) : py_cmp(rest[i], Last(l)) = 0
         THEN rest
         ELSE Append(rest, Last(l))

\* cmp of two (value, key) tuples, the key of operator.itemgetter(1, 0).
item_cmp(x, y) ==
    IF py_cmp(x.v, y.v) # 0 THEN py_cmp(x.v, y.v) ELSE text_cmp(x.k, y.k)

RECURSIVE items_insort(_, _)
items_insort(l, x) ==
    IF l = <<>> THEN <<x>>
    ELSE IF item_cmp(Last(l), x) <= 0 THEN Append(l, x)
    ELSE Append(items_insort(SubSeq(l, 1, Len(l) - 1), x), Last(l))

\* d.sort(key=operator.itemgetter(1,0))
RECURSIVE sort_by_value_key(_)
sort_by_value_key(d) ==
    IF d = <<>> THEN <<>>
    ELSE items_insort(sort_by_value_key(SubSeq(d, 1, Len(d) - 1)), Last(d))

(***************************************************************************)
(* jpacks.py                                                               *)
(***************************************************************************)
\* What a call leaves behind: how it ended, its locals fj (the decoded
\* arguments), d (the sorted entries of a jdict) and vals (the list given to
\* toj), the value it returned and the items it yielded.
Ret(status, f, dd, vs, res, ys) ==
    [status |-> status, fj |-> f, d |-> dd, vals |-> vs, result |-> res,
     yielded |-> ys]

Raise(exc) == Ret(exc, <<>>, <<>>, <<>>, Null, <<>>)

jpack(as) ==
    LET l == elemfromj(as) IN Ret("ok", l, <<>>, l, toj(l), <<>>)

\* jmerge decoding with elemfromj in place of fromj.
jmerge_elem(as) ==
    LET l == elemfromj(as) IN Ret("ok", l, <<>>, l, toj(l), <<>>)

jmerge(as) ==
    LET l == fromj(as) IN Ret("ok", l, <<>>, l, toj(l), <<>>)

\* jset without the set().
jset_nodedup(as) ==
    LET l == fromj(as) IN Ret("ok", l, <<>>, sorted(l), toj(sorted(l)), <<>>)

jset(as) ==
    LET l == fromj(as) IN
    IF ~Hashable(l) THEN [Raise("TypeError") EXCEPT !.fj = l]
    ELSE Ret("ok", l, <<>>, sorted(py_set(l)), toj(sorted(py_set(l))), <<>>)

\* jsort without the sorted().
jsort_unsorted(as) ==
    LET l == fromj(as) IN Ret("ok", l, <<>>, l, toj(l), <<>>)

jsort(as) ==
    LET l == fromj(as) IN Ret("ok", l, <<>>, sorted(l), toj(sorted(l)), <<>>)

\* 'C'+str(x) for x in xrange(1, n+1)
ColumnNames(n) == [x \in 1..n |-> Text(<<"C">> \o IntText(x))]

jsplit(as) ==
    LET l  == fromj(as)
        fj1 == [i \in 1..Len(l) |-> toj1(l[i])]
    IN  Ret("ok", l, <<>>, fj1, Null,
            (IF fj1 = <<>> THEN << <<Text(<<"C", "1">>)>> >> ELSE <<>>)
            \o <<ColumnNames(Len(fj1)), fj1>>)

\* What a[0] does to an argument: a number or None cannot be subscripted,
\* an empty text has no first character.
Subscript0(a) ==
    IF a.t \in {"int", "real", "null"} THEN "TypeError"
    ELSE IF a.s = <<>> THEN "IndexError"
    ELSE "ok"

\* a[0]=='{' and a[-1]=='}'
LooksLikeDict(a) == a.s[1] = "{" /\ Last(a.s) = "}"

\* The orders a dict or a set of the keys ks may be iterated in.
Orderings(ks) ==
    LET K == {ks[i] : i \in 1..Len(ks)} IN
    {p \in [1..Cardinality(K) -> K] :
        \A i, j \in 1..Cardinality(K) : i # j => p[i] # p[j]}

KeysOf(items) == [i \in 1..Len(items) |-> Text(items[i].k)]

\* The loop of jdictkeys over several arguments: the keys collected, or the
\* exception of the first argument that raises one.
RECURSIVE KeysLoop(_)
KeysLoop(as) ==
    IF as = <<>> THEN [status |-> "ok", keys |-> <<>>]
    ELSE IF Subscript0(as[1]) # "ok"
         THEN [status |-> Subscript0(as[1]), keys |-> <<>>]
    ELSE IF ~LooksLikeDict(as[1]) THEN KeysLoop(Tail(as))
    ELSE IF ~json_loads_dict(as[1].s).ok
         THEN [status |-> "ValueError", keys |-> <<>>]
    ELSE LET rest == KeysLoop(Tail(as)) IN
         IF rest.status # "ok" THEN rest
         ELSE [status |-> "ok",
               keys |-> KeysOf(json_loads_dict(as[1].s).items) \o rest.keys]

\* jdictkeys(*args): the set of its possible outcomes, one for each order the
\* keys may come in.
jdictkeys(as) ==
    LET Packs(ks) == {Ret("ok", <<>>, <<>>, p, toj(p), <<>>) : p \in Orderings(ks)}
    IN
    IF Len(as) = 1
    THEN IF IsNumber(as[1]) THEN Packs(<<>>)
         ELSE IF Subscript0(as[1]) # "ok" THEN {Raise(Subscript0(as[1]))}
         ELSE IF ~LooksLikeDict(as[1]) THEN Packs(<<>>)
         ELSE IF ~json_loads_dict(as[1].s).ok THEN {Raise("ValueError")}
         ELSE Packs(KeysOf(json_loads_dict(as[1].s).items))
    ELSE IF KeysLoop(as).status # "ok" THEN {Raise(KeysLoop(as).status)}
         ELSE Packs(KeysLoop(as).keys)

\* d[i], or None when the key is missing.
Lookup(items, i) ==
    IF i.t = "text" /\ \E n \in 1..Len(items) : items[n].k = i.s
    THEN items[CHOOSE n \in 1..Len(items) : items[n].k = i.s].v
    ELSE Null

\* The entries of a dict sorted by key alone.
RECURSIVE sort_by_key(_)
sort_by_key(d) ==
    IF d = <<>> THEN <<>>
    ELSE LET rest == sort_by_key(SubSeq(d, 1, Len(d) - 1))
             n == Cardinality({i \in 1..Len(rest) :
                                 text_cmp(rest[i].k, Last(d).k) <= 0})
         IN  SubSeq(rest, 1, n) \o <<Last(d)>> \o SubSeq(rest, n + 1, Len(rest))

\* jdictvals with the values of a lone jdict in the order of their keys.
jdictvals_bykey(as) ==
    IF as = <<>> THEN Raise("IndexError")
    ELSE IF IsNumber(as[1]) THEN Ret("ok", <<>>, <<>>, <<>>, as[1], <<>>)
    ELSE IF Subscript0(as[1]) # "ok" THEN Raise(Subscript0(as[1]))
    ELSE IF ~LooksLikeDict(as[1]) THEN Ret("ok", <<>>, <<>>, <<>>, as[1], <<>>)
    ELSE IF ~json_loads_dict(as[1].s).ok THEN Raise("ValueError")
    ELSE LET d == sort_by_key(json_loads_dict(as[1].s).items)
             vals == [i \in 1..Len(d) |-> d[i].v]
         IN  Ret("ok", <<>>, d, vals, toj(vals), <<>>)

jdictvals(as) ==
    IF as = <<>> THEN Raise("IndexError")
    ELSE IF IsNumber(as[1]) THEN Ret("ok", <<>>, <<>>, <<>>, as[1], <<>>)
    ELSE IF Subscript0(as[1]) # "ok" THEN Raise(Subscript0(as[1]))
    ELSE IF ~LooksLikeDict(as[1]) THEN Ret("ok", <<>>, <<>>, <<>>, as[1], <<>>)
    ELSE IF ~json_loads_dict(as[1].s).ok THEN Raise("ValueError")
    ELSE LET items == json_loads_dict(as[1].s).items IN
         IF Len(as) = 1
         THEN LET d == sort_by_value_key(items)
                  vals == [i \in 1..Len(d) |-> d[i].v]
              IN  Ret("ok", <<>>, d, vals, toj(vals), <<>>)
         ELSE LET vals == [i \in 1..(Len(as) - 1) |-> Lookup(items, as[i + 1])]
              IN  Ret("ok", <<>>, items, vals, toj(vals), <<>>)

(***************************************************************************)
(* Inputs of the row functions                                             *)
(***************************************************************************)
TextA == <<"a">>
TextOne == <<"1">>
EmptyPack == <<"[", "]">>
\* [1,"a"]
PackFlat == <<"[", "1", ",", Quote, "a", Quote, "]">>
\* [[1],"a"]
PackNested == <<"[", "[", "1", "]", ",", Quote, "a", Quote, "]">>
\* [[1,"a"],1.0]
PackNested2 ==
    <<"[", "[", "1", ",", Quote, "a", Quote, "]", ",", "1", ".", "0", "]">>
\* {"b":1,"a":1}
DictTie ==
    <<"{", Quote, "b", Quote, ":", "1", ",", Quote, "a", Quote, ":", "1", "}">>
\* {"a":2,"x":1}
DictRev ==
    <<"{", Quote, "a", Quote, ":", "2", ",", Quote, "x", Quote, ":", "1", "}">>

ArgValues ==
    { Null, Integer(1), Integer(2), Float(10),
      Text(TextA), Text(TextOne), Text(<<>>),
      Text(EmptyPack), Text(PackFlat), Text(PackNested), Text(PackNested2),
      Text(DictTie), Text(DictRev) }

PackIdle ==
    /\ fed = FALSE
    /\ pc = "idle"
    /\ fn = ""
    /\ ret = Raise("")

InitStream ==
    /\ parsedArgs \in ArgLists
    /\ tbl \in {t \in Tables : t.failAt <= Len(t.rows) + 1}
    /\ gen = "unopened"
    /\ cur = NoCursor
    /\ delivered = <<>>
    /\ last = "none"
    /\ err = NoError
    /\ afterEnd = 0
    /\ args = <<>>
    /\ orig = <<>>
    /\ PackIdle

\* The host calls VTiter: a generator object is made, none of its code runs.
Open ==
    /\ gen = "unopened"
    /\ gen' = "created"
    /\ UNCHANGED <<parsedArgs, tbl, cur, delivered, last, err, afterEnd>>
    /\ UNCHANGED packVars

\* The host calls next() for the first time.
NextFirst ==
    /\ gen = "created"
    /\ LET r == VTiterStart(parsedArgs, tbl) IN
         /\ gen' = r.gen
         /\ cur' = r.cur
         /\ delivered' = delivered \o r.out
         /\ last' = r.last
         /\ err' = r.err
    /\ UNCHANGED <<parsedArgs, tbl, afterEnd>>
    /\ UNCHANGED packVars

\* The host calls next() on a generator suspended at a yield.
NextRow ==
    /\ gen \in {"atSchema", "inLoop"}
    /\ LET r == VTiterResume(cur, tbl) IN
         /\ gen' = r.gen
         /\ cur' = r.cur
         /\ delivered' = delivered \o r.out
         /\ last' = r.last
         /\ err' = r.err
    /\ UNCHANGED <<parsedArgs, tbl, afterEnd>>
    /\ UNCHANGED packVars

\* next() on a generator that has returned or raised: StopIteration, always.
NextAfterEnd ==
    /\ gen = "finished"
    /\ afterEnd < MaxAfterEnd
    /\ afterEnd' = afterEnd + 1
    /\ last' = "EndOfStream"
    /\ UNCHANGED <<parsedArgs, tbl, gen, cur, delivered, err>>
    /\ UNCHANGED packVars

\* The host throws StopIteration into the suspended generator.
ThrowStop ==
    /\ gen \in {"atSchema", "inLoop"}
    /\ LET r == VTiterThrow(gen, cur) IN
         /\ gen' = r.gen
         /\ cur' = r.cur
         /\ last' = r.last
    /\ UNCHANGED <<parsedArgs, tbl, delivered, err, afterEnd>>
    /\ UNCHANGED packVars

NextStream == Open \/ NextFirst \/ NextRow \/ NextAfterEnd \/ ThrowStop

SpecStream == InitStream /\ [][NextStream]_vars

(***************************************************************************)
(* The row functions, one call at a time                                   *)
(***************************************************************************)
InitPack ==
    /\ parsedArgs = <<>>
    /\ tbl = [cols |-> Cols, rows |-> <<>>, failAt |-> 0]
    /\ gen = "unopened"
    /\ cur = NoCursor
    /\ delivered = <<>>
    /\ last = "none"
    /\ err = NoError
    /\ afterEnd = 0
    /\ args \in SeqsUpTo(ArgValues, MaxArgs)
    /\ orig = args
    /\ PackIdle

Return(name, r) ==
    /\ pc' = "done"
    /\ fn' = name
    /\ ret' = r
    /\ UNCHANGED <<args, orig, fed>>
    /\ UNCHANGED streamVars

CallJpack ==
    /\ pc = "idle"
    /\ Return("jpack", jpack(args))

CallJmerge ==
    /\ pc = "idle"
    /\ Return("jmerge", jmerge(args))

CallJset ==
    /\ pc = "idle"
    /\ Return("jset", jset(args))

CallJsort ==
    /\ pc = "idle"
    /\ Return("jsort", jsort(args))

CallJsplit ==
    /\ pc = "idle"
    /\ Return("jsplit", jsplit(args))

CallJdictkeys ==
    /\ pc = "idle"
    /\ \E r \in jdictkeys(args) : Return("jdictkeys", r)

CallJdictvals ==
    /\ pc = "idle"
    /\ Return("jdictvals", jdictvals(args))


\* The pack a jpack call returned becomes the only argument of a next call,
\* as in jmerge(jpack(...)).
Feed ==
    /\ pc = "done"
    /\ fn = "jpack"
    /\ ~fed
    /\ ret.status = "ok"
    /\ args' = <<ret.result>>
    /\ fed' = TRUE
    /\ pc' = "idle"
    /\ UNCHANGED <<orig, fn, ret>>
    /\ UNCHANGED streamVars

NextPack ==
    \/ CallJpack \/ CallJmerge \/ CallJset \/ CallJsort \/ CallJsplit
    \/ CallJdictkeys \/ CallJdictvals \/ Feed

SpecPack == InitPack /\ [][NextPack]_vars

(***************************************************************************)
(* Properties                                                              *)
(***************************************************************************)
\* C1: a stream that has left Streaming, by exhaustion or by an error, has
\* closed the sub-cursor it opened.
C1_SubCursorClosedOnExit ==
    (StreamState \in {"Exhausted", "Failed"} /\ cur.opened) => cur.closed

\* C2: the first item next() returns is the schema row and every later one a
\* data row, and once the generator has ended no call adds an item.
C2_SchemaFirstNothingAfterEnd ==
    /\ [](delivered # <<>> =>
            /\ delivered[1] = SchemaItem(tbl.cols)
            /\ \A i \in 2..Len(delivered) : delivered[i].kind = "data")
    /\ [][gen = "finished" => delivered' = delivered]_vars

C2_Witness ==
    /\ gen = "finished"
    /\ err = NoError
    /\ afterEnd >= 1
    /\ Len(delivered) >= 2

NoQueryArgument == \A i \in 1..Len(parsedArgs) : parsedArgs[i].k # "query"

\* C3: without a named argument query the stream never opens a sub-cursor
\* and never delivers an item, and once run it has failed with the
\* OperatorError of igroup about the query argument.
C3_MissingQueryFailsFirst ==
    NoQueryArgument =>
        /\ ~cur.opened
        /\ delivered = <<>>
        /\ gen \notin {"unopened", "created"} =>
              /\ gen = "finished"
              /\ err = [type |-> "OperatorError", operator |-> "igroup",
                        msg |-> "No query argument "]

C3_Witness ==
    /\ NoQueryArgument
    /\ Len(parsedArgs) > 0
    /\ StreamState = "Failed"
    /\ err.type = "OperatorError"

\* C4: the data rows delivered are the rows the sub-cursor has been asked
\* for, in its order, each once, and none has been pulled ahead.
C4_RowsAsPulled ==
    /\ \A i \in 2..Len(delivered) : delivered[i] = DataItem(tbl.rows[i - 1])
    /\ cur.pos = (IF delivered = <<>> THEN 0 ELSE Len(delivered) - 1)

C4_Witness ==
    /\ Len(delivered) = 3
    /\ delivered[2] # delivered[3]
    /\ StreamState = "Exhausted"

\* The canonical order of the values: types by rank, numbers by value,
\* texts by character, sequences element by element, the shorter first.
CanonRank   == [null |-> 0, int |-> 1, real |-> 1, text |-> 2, seq |-> 3]
\* The same with a Sequence before a Text.
SeqFirstRank == [null |-> 0, int |-> 1, real |-> 1, seq |-> 2, text |-> 3]

RECURSIVE OrderLess(_, _, _)
RECURSIVE OrderListLess(_, _, _)
OrderLess(rank, a, b) ==
    IF rank[a.t] # rank[b.t] THEN rank[a.t] < rank[b.t]
    ELSE CASE a.t = "null" -> FALSE
           [] a.t \in {"int", "real"} -> Tenths(a) < Tenths(b)
           [] a.t = "text" ->
                \E i \in 1..(Len(a.s) + 1) :
                    /\ i <= Len(b.s)
                    /\ SubSeq(a.s, 1, i - 1) = SubSeq(b.s, 1, i - 1)
                    /\ (i = Len(a.s) + 1 \/ CharCode(a.s[i]) < CharCode(b.s[i]))
           [] a.t = "seq" -> OrderListLess(rank, a.e, b.e)

OrderListLess(rank, a, b) ==
    IF b = <<>> THEN FALSE
    ELSE IF a = <<>> THEN TRUE
    ELSE IF OrderLess(rank, a[1], b[1]) THEN TRUE
    ELSE IF OrderLess(rank, b[1], a[1]) THEN FALSE
    ELSE OrderListLess(rank, Tail(a), Tail(b))

\* Neither is less: the two are of one equivalence class.
OrderSame(rank, a, b) == ~OrderLess(rank, a, b) /\ ~OrderLess(rank, b, a)

NonDecreasing(rank, l) ==
    \A i \in 1..(Len(l) - 1) : ~OrderLess(rank, l[i + 1], l[i])

StrictlyIncreasing(rank, l) ==
    \A i \in 1..(Len(l) - 1) : OrderLess(rank, l[i], l[i + 1])

Count(x, l) == Cardinality({i \in 1..Len(l) : l[i] = x})

IsPermutation(a, b) ==
    /\ Len(a) = Len(b)
    /\ \A i \in 1..Len(a) : Count(a[i], a) = Count(a[i], b)

OpensLikeArray(v) == v.t = "text" /\ v.s # <<>> /\ v.s[1] = "["

Done(name) == pc = "done" /\ fn = name

\* C5 as stated: decoding the pack of any sequence of scalars gives the
\* sequence back.
C5_RoundTrip ==
    (Done("jmerge") /\ fed) => (ret.status = "ok" /\ ret.fj = orig)

\* C5 as amended: decoding the pack of a sequence of scalars none of whose
\* Text elements begins with "[" gives the sequence back.
C5_RoundTripNoArrayText ==
    (Done("jmerge") /\ fed /\ \A i \in 1..Len(orig) : ~OpensLikeArray(orig[i]))
        => (ret.status = "ok" /\ ret.fj = orig)

C5_Witness ==
    /\ Done("jmerge") /\ fed
    /\ Len(orig) = 2
    /\ orig[1].t = "text" /\ orig[2].t = "real"
    /\ ret.fj = orig

SortedUnder(rank) ==
    Done("jsort") =>
        /\ ret.status = "ok"
        /\ ret.result = toj(ret.vals)
        /\ IsPermutation(ret.vals, fromj(args))
        /\ NonDecreasing(rank, ret.vals)

\* C6 as stated: jsort returns the pack of a permutation of the decoded
\* arguments that is non-decreasing under the canonical order
\* Null < number < Text < Sequence.
C6_SortCanonical == SortedUnder(CanonRank)

\* C6 as amended: the same under the order Null < number < Sequence < Text.
C6_SortSequenceBeforeText == SortedUnder(SeqFirstRank)

C6_Witness ==
    /\ Done("jsort")
    /\ \E i, j \in 1..Len(ret.vals) :
          i < j /\ ret.vals[i].t = "seq" /\ ret.vals[j].t = "text"
    /\ \E i, j \in 1..Len(ret.vals) :
          i < j /\ ret.vals[i].t = "seq" /\ ret.vals[j].t = "seq"
          /\ ret.vals[i] # ret.vals[j]
    /\ ret.vals # ret.fj

\* The list l holds every class of the list f once and nothing else.
OneOfEachClass(rank, l, f) ==
    /\ \A i \in 1..Len(f) :
          Cardinality({j \in 1..Len(l) : OrderSame(rank, l[j], f[i])}) = 1
    /\ \A j \in 1..Len(l) : \E i \in 1..Len(f) : f[i] = l[j]

SetOf(rank) ==
    /\ ret.status = "ok"
    /\ ret.result = toj(ret.vals)
    /\ StrictlyIncreasing(rank, ret.vals)
    /\ OneOfEachClass(rank, ret.vals, fromj(args))

\* C7 as stated: for any arguments jset returns the pack of a strictly
\* increasing sequence holding each class of the decoded arguments once.
C7_SetAnyArguments == Done("jset") => SetOf(CanonRank)

\* C7 as amended: so it does when the decoded arguments are all scalars; when
\* one is a Sequence the call fails with a TypeError and returns no pack.
C7_SetOfScalars ==
    Done("jset") =>
        IF \A i \in 1..Len(fromj(args)) : IsScalar(fromj(args)[i])
        THEN SetOf(CanonRank)
        ELSE ret.status = "TypeError" /\ ret.result = Null

C7_Witness ==
    /\ Done("jset")
    /\ ret.status = "ok"
    /\ \E i, j \in 1..Len(ret.fj) :
          ret.fj[i].t = "int" /\ ret.fj[j].t = "real"
          /\ Tenths(ret.fj[i]) = Tenths(ret.fj[j])
    /\ \E i \in 1..Len(ret.fj) : ret.fj[i].t = "text"
    /\ Len(ret.vals) < Len(ret.fj)

\* C8: jsplit yields two items, the schema C1..Cn and then the one row of the
\* n decoded elements; with no element the schema is the column C1.
C8_SplitTwoItems ==
    Done("jsplit") =>
        LET f == fromj(args) IN
        /\ Len(ret.yielded) = 2
        /\ ret.yielded[1] =
              (IF f = <<>> THEN <<Text(<<"C", "1">>)>>
               ELSE [x \in 1..Len(f) |-> Text(<<"C">> \o IntText(x))])
        /\ ret.yielded[2] = [i \in 1..Len(f) |-> toj1(f[i])]

ObjectShaped(a) ==
    a.t = "text" /\ a.s # <<>> /\ a.s[1] = "{" /\ a.s[Len(a.s)] = "}"

\* The keys of the arguments that are object-shaped.
ObjectKeys(as) ==
    UNION { {Text(it.k) : it \in
                {json_loads_dict(as[i].s).items[n] :
                    n \in 1..Len(json_loads_dict(as[i].s).items)}} :
            i \in {i \in 1..Len(as) : ObjectShaped(as[i])} }

\* C9: jdictkeys never fails and returns the pack of the keys of its
\* object-shaped arguments, each once; the other arguments add nothing.
C9_DictKeysUnion ==
    Done("jdictkeys") =>
        /\ ret.status = "ok"
        /\ ret.result = toj(ret.vals)
        /\ {ret.vals[i] : i \in 1..Len(ret.vals)} = ObjectKeys(args)
        /\ Len(ret.vals) = Cardinality(ObjectKeys(args))

====
